---- MODULE Spec2Model ----
(***************************************************************************)
(* Integrity / deduplication / validation pipeline of astroml.validation   *)
(* (hashing.py, validator.py, dedupe.py, integrity.py) and the ingestion   *)
(* service of astroml.ingestion (service.py, state.py).                    *)
(*                                                                         *)
(* Python values are modelled as follows.                                  *)
(*   scalar field value    <<type name, text>>, e.g. <<"str", "1">>        *)
(*   None                  <<"NoneType", "None">>                           *)
(*   Optional argument     <<>> for None, <<x>> for a supplied x           *)
(*   object given as a     [type, items, text]: a dict carries its items   *)
(*   transaction           as the insertion-ordered sequence of            *)
(*                         <<key, value>> pairs, a str carries its text    *)
(* Wall-clock timestamps of ValidationError / ConflictRecord are not       *)
(* modelled.                                                               *)
(***************************************************************************)
EXTENDS Integers, Sequences, FiniteSets, TLC

VARIABLES
    hash_fields,      \* Optional[Set[str]] given to the constructors
    required_fields,  \* TransactionValidator.required_fields, in enumeration order
    field_types,      \* TransactionValidator.field_types, as <<field, type name>> in enumeration order
    strict,           \* IntegrityValidator._strict
    track_conflicts,  \* Deduplicator._track_conflicts
    seen_hashes,      \* Deduplicator._seen_hashes
    conflicts,        \* Deduplicator._conflicts
    call,             \* the caller: NoCall between calls, else the call that has just returned or raised
    threads,          \* callers sharing one Deduplicator: where each is in its add call
    state_store,      \* StateStore: the IngestionState its file holds
    ingest_call,      \* the caller of IngestionService.ingest: the call that has just returned or raised
    callbacks         \* process_fn: the ledger ids it was invoked on, once and more than once

vars == <<hash_fields, required_fields, field_types, strict, track_conflicts,
          seen_hashes, conflicts, call, threads, state_store, ingest_call, callbacks>>

ingestion == <<state_store, ingest_call, callbacks>>

config == <<hash_fields, required_fields, field_types, strict, track_conflicts>>

(***************************************************************************)
(* Bounds                                                                  *)
(***************************************************************************)
MaxBatch == 3     \* longest batch handed to a batch operation
MaxLog == 2       \* longest conflict log a session is let to reach
MaxLedger == 2    \* largest ledger id an ingest call is let to attempt

(***************************************************************************)
(* Python values                                                           *)
(***************************************************************************)
NoneV == <<"NoneType", "None">>
StrV(s) == <<"str", s>>
IntV(s) == <<"int", s>>

Dict(items) == [type |-> "dict", items |-> items, text |-> ""]
PyStr(s) == [type |-> "str", items |-> <<>>, text |-> s]

IsDict(tx) == tx.type = "dict"

\* `key in transaction`: key membership for a dict; for a str it is the
\* substring test, which no modelled field name passes on the modelled texts.
Contains(tx, key) ==
    IF IsDict(tx) THEN \E i \in 1..Len(tx.items) : tx.items[i][1] = key
    ELSE FALSE

\* transaction[key], for a key the dict holds
Item(tx, key) == tx.items[CHOOSE i \in 1..Len(tx.items) : tx.items[i][1] = key][2]

\* dict.get(key)
DictGet(tx, key) == IF Contains(tx, key) THEN Item(tx, key) ELSE NoneV

(***************************************************************************)
(* hashing.py                                                              *)
(***************************************************************************)
DEFAULT_HASH_FIELDS == {"id", "payload", "timestamp"}

\* the modelled field names in the order json.dumps(sort_keys=True) emits them
SortedKeys == <<"amount", "id", "payload", "timestamp">>

\* a projection that leaves out the fields whose value is null
HashDataDropsNull(tx, fields) == {k \in fields : Contains(tx, k) /\ Item(tx, k) # NoneV}

\* hash_data: the projection of the transaction onto the requested fields it holds
HashData(tx, fields) == {k \in fields : Contains(tx, k)}

\* a json.dumps without sort_keys: the pairs of the projection in the order
\* the transaction holds them
JsonDumpsInsertionOrder(tx, keys) ==
    LET F[i \in 0..Len(tx.items)] ==
            IF i = 0 THEN <<>>
            ELSE IF tx.items[i][1] \in keys
                 THEN Append(F[i - 1], tx.items[i])
                 ELSE F[i - 1]
    IN  F[Len(tx.items)]

\* json.dumps(hash_data, sort_keys=True, default=str): the <<key, value>>
\* pairs of the projection in sorted key order
JsonDumpsSorted(tx, keys) ==
    LET F[i \in 0..Len(SortedKeys)] ==
            IF i = 0 THEN <<>>
            ELSE IF SortedKeys[i] \in keys
                 THEN Append(F[i - 1], <<SortedKeys[i], Item(tx, SortedKeys[i])>>)
                 ELSE F[i - 1]
    IN  F[Len(SortedKeys)]

\* hashlib.sha256(...).hexdigest(), taken as collision free: the digest
\* stands for the serialization it was computed from
Sha256(serialized) == <<"sha256", serialized>>

compute_transaction_hash(tx, fields) ==
    LET fs == IF fields = <<>> THEN DEFAULT_HASH_FIELDS ELSE fields[1]
    IN  Sha256(JsonDumpsSorted(tx, HashData(tx, fs)))

(***************************************************************************)
(* validator.py                                                            *)
(***************************************************************************)
MISSING_FIELD == "MISSING_FIELD"
INVALID_TYPE == "INVALID_TYPE"
HASH_MISMATCH == "HASH_MISMATCH"
MALFORMED_STRUCTURE == "MALFORMED_STRUCTURE"

ValidationError(tid, etype, message, fld) ==
    [transaction_id |-> tid, error_type |-> etype, message |-> message, field |-> fld]

\* a constructor that takes an empty required set as given
RequiredAsGiven(arg) == IF arg = <<>> THEN {"id"} ELSE arg[1]

\* TransactionValidator.__init__: `required_fields or {"id"}`
RequiredOrDefault(arg) == IF arg = <<>> \/ arg[1] = {} THEN {"id"} ELSE arg[1]

\* the orders in which a set can be enumerated
Enumerations(S) ==
    {s \in [1..Cardinality(S) -> S] : \A i, j \in 1..Cardinality(S) : i # j => s[i] # s[j]}

\* a required-field loop that takes a null field for present
MissingErrorsAbsentOnly(tx, required) ==
    LET tid == DictGet(tx, "id")
        F[i \in 0..Len(required)] ==
            IF i = 0 THEN <<>>
            ELSE IF ~Contains(tx, required[i])
                 THEN Append(F[i - 1],
                             ValidationError(tid, MISSING_FIELD,
                                 <<"Required field is missing or null", required[i]>>,
                                 <<required[i]>>))
                 ELSE F[i - 1]
    IN  F[Len(required)]

\* the errors of the required-field loop, in enumeration order
MissingErrors(tx, required) ==
    LET tid == DictGet(tx, "id")
        F[i \in 0..Len(required)] ==
            IF i = 0 THEN <<>>
            ELSE IF ~Contains(tx, required[i]) \/ Item(tx, required[i]) = NoneV
                 THEN Append(F[i - 1],
                             ValidationError(tid, MISSING_FIELD,
                                 <<"Required field is missing or null", required[i]>>,
                                 <<required[i]>>))
                 ELSE F[i - 1]
    IN  F[Len(required)]

\* the errors of the field-type loop, in enumeration order
TypeErrors(tx, types) ==
    LET tid == DictGet(tx, "id")
        F[i \in 0..Len(types)] ==
            IF i = 0 THEN <<>>
            ELSE IF /\ Contains(tx, types[i][1])
                    /\ Item(tx, types[i][1]) # NoneV
                    /\ Item(tx, types[i][1])[1] # types[i][2]
                 THEN Append(F[i - 1],
                             ValidationError(tid, INVALID_TYPE,
                                 <<"Field has type, expected", types[i][1],
                                   Item(tx, types[i][1])[1], types[i][2]>>,
                                 <<types[i][1]>>))
                 ELSE F[i - 1]
    IN  F[Len(types)]

MalformedErrors(tx) ==
    IF ~IsDict(tx)
    THEN <<ValidationError(DictGet(tx, "id"), MALFORMED_STRUCTURE,
                           <<"Transaction is not a dictionary">>, <<>>)>>
    ELSE <<>>

HashErrors(tx, tx_hash, stored_hash) ==
    IF stored_hash # <<>> /\ stored_hash[1] # tx_hash
    THEN <<ValidationError(DictGet(tx, "id"), HASH_MISMATCH,
                           <<"Hash mismatch: expected, computed", stored_hash[1], tx_hash>>, <<>>)>>
    ELSE <<>>

NoHash == <<"sha256", <<>>, "none">>

\* a validate that verifies the stored hash before it runs the field checks
validateHashFirst(tx, stored_hash, required, types, fields) ==
    IF ~IsDict(tx)
    THEN [raised |-> "AttributeError", is_valid |-> FALSE, errors |-> <<>>,
          transaction_id |-> NoneV, hash |-> NoHash]
    ELSE LET tx_hash == compute_transaction_hash(tx, fields)
             errors == HashErrors(tx, tx_hash, stored_hash) \o MissingErrors(tx, required)
                         \o TypeErrors(tx, types) \o MalformedErrors(tx)
         IN  [raised |-> "", is_valid |-> (Len(errors) = 0), errors |-> errors,
              transaction_id |-> DictGet(tx, "id"), hash |-> tx_hash]

\* TransactionValidator.validate.  `transaction.get("id")` is its first
\* statement on the transaction: an object without a get attribute (a str)
\* raises AttributeError there, before any check runs.
validate(tx, stored_hash, required, types, fields) ==
    IF ~IsDict(tx)
    THEN [raised |-> "AttributeError", is_valid |-> FALSE, errors |-> <<>>,
          transaction_id |-> NoneV, hash |-> NoHash]
    ELSE LET tx_hash == compute_transaction_hash(tx, fields)
             errors == MissingErrors(tx, required) \o TypeErrors(tx, types)
                         \o MalformedErrors(tx) \o HashErrors(tx, tx_hash, stored_hash)
         IN  [raised |-> "", is_valid |-> (Len(errors) = 0), errors |-> errors,
              transaction_id |-> DictGet(tx, "id"), hash |-> tx_hash]

\* a validate_batch that hands the last stored hash to the records past the
\* end of stored_hashes
validate_batchReusesLast(txs, stored_hashes, required, types, fields) ==
    LET stored(i) == IF stored_hashes # <<>> /\ Len(stored_hashes[1]) > 0
                     THEN IF i <= Len(stored_hashes[1])
                          THEN <<stored_hashes[1][i]>>
                          ELSE <<stored_hashes[1][Len(stored_hashes[1])]>>
                     ELSE <<>>
        results == [i \in 1..Len(txs) |-> validate(txs[i], stored(i), required, types, fields)]
        raising == {i \in 1..Len(txs) : results[i].raised # ""}
    IN  IF raising = {}
        THEN [raised |-> "", results |-> results]
        ELSE [raised |-> "AttributeError", results |-> <<>>]

\* TransactionValidator.validate_batch: the i-th record is validated against
\* stored_hashes[i] when the list is given and has that index, against None
\* otherwise; an exception of a validate call leaves the call without results
validate_batch(txs, stored_hashes, required, types, fields) ==
    LET stored(i) == IF stored_hashes # <<>> /\ i <= Len(stored_hashes[1])
                     THEN <<stored_hashes[1][i]>>
                     ELSE <<>>
        results == [i \in 1..Len(txs) |-> validate(txs[i], stored(i), required, types, fields)]
        raising == {i \in 1..Len(txs) : results[i].raised # ""}
    IN  IF raising = {}
        THEN [raised |-> "", results |-> results]
        ELSE [raised |-> "AttributeError", results |-> <<>>]

(***************************************************************************)
(* dedupe.py                                                               *)
(***************************************************************************)
DUPLICATE == "DUPLICATE"
CORRUPTED == "CORRUPTED"

ConflictRecord(tid, hash_value, conflict_type, source, message) ==
    [transaction_id |-> tid, hash |-> hash_value, conflict_type |-> conflict_type,
     source |-> source, message |-> message]

\* a _log_conflict that keeps only the newest conflict
LogConflictOverwrites(log, tx, hash_value, conflict_type, source, track) ==
    LET conflict == ConflictRecord(DictGet(tx, "id"), hash_value, conflict_type, source,
                                   <<"Transaction detected", conflict_type>>)
    IN  IF track THEN <<conflict>> ELSE log

\* a _log_conflict that does not look at track_conflicts
LogConflictUntracked(log, tx, hash_value, conflict_type, source, track) ==
    LET conflict == ConflictRecord(DictGet(tx, "id"), hash_value, conflict_type, source,
                                   <<"Transaction detected", conflict_type>>)
    IN  Append(log, conflict)

\* Deduplicator._log_conflict: the conflict log after the call
LogConflict(log, tx, hash_value, conflict_type, source, track) ==
    LET conflict == ConflictRecord(DictGet(tx, "id"), hash_value, conflict_type, source,
                                   <<"Transaction detected", conflict_type>>)
    IN  IF track THEN Append(log, conflict) ELSE log

\* an add that rejects a duplicate without logging the conflict
DedupAddSilent(seen, log, tx, source, fields, track) ==
    LET hash_value == compute_transaction_hash(tx, fields)
    IN  IF hash_value \in seen
        THEN [seen |-> seen, log |-> log, ret |-> FALSE]
        ELSE [seen |-> seen \cup {hash_value}, log |-> log, ret |-> TRUE]

\* an add that accepts a record without inserting its hash
DedupAddForgetsHash(seen, log, tx, source, fields, track) ==
    LET hash_value == compute_transaction_hash(tx, fields)
    IN  IF hash_value \in seen
        THEN [seen |-> seen,
              log |-> LogConflict(log, tx, hash_value, DUPLICATE, source, track),
              ret |-> FALSE]
        ELSE [seen |-> seen, log |-> log, ret |-> TRUE]

\* Deduplicator.add: the session after the call and the value returned
DedupAdd(seen, log, tx, source, fields, track) ==
    LET hash_value == compute_transaction_hash(tx, fields)
    IN  IF hash_value \in seen
        THEN [seen |-> seen,
              log |-> LogConflict(log, tx, hash_value, DUPLICATE, source, track),
              ret |-> FALSE]
        ELSE [seen |-> seen \cup {hash_value}, log |-> log, ret |-> TRUE]

\* Deduplicator.add up to the membership test: the hash and whether it was
\* found in the seen set at that moment
DedupAddTest(seen, tx, fields) ==
    LET hash_value == compute_transaction_hash(tx, fields)
    IN  [hash_value |-> hash_value, present |-> hash_value \in seen]

\* a second half of add that tests membership again at the moment it inserts
DedupAddFinishRetests(seen, log, tx, source, fields, track, present) ==
    DedupAdd(seen, log, tx, source, fields, track)

\* Deduplicator.add after the membership test: the branch was chosen by the
\* test (present), the session is the one found now
DedupAddFinish(seen, log, tx, source, fields, track, present) ==
    LET hash_value == compute_transaction_hash(tx, fields)
    IN  IF present
        THEN [seen |-> seen,
              log |-> LogConflict(log, tx, hash_value, DUPLICATE, source, track),
              ret |-> FALSE]
        ELSE [seen |-> seen \cup {hash_value}, log |-> log, ret |-> TRUE]

\* a check that hashes with the default fields instead of self.hash_fields
DedupCheckDefaultFields(seen, tx, fields) == compute_transaction_hash(tx, <<>>) \in seen

\* Deduplicator.check
DedupCheck(seen, tx, fields) == compute_transaction_hash(tx, fields) \in seen

\* DeduplicationResult() / IntegrityResult(), one shape for both:
\* unique, duplicates, hashes, conflicts are the fields of the former,
\* valid, duplicates, corrupted, all_hashes, validation_errors, conflicts of the latter
EmptyResult ==
    [unique |-> <<>>, valid |-> <<>>, duplicates |-> <<>>, corrupted |-> <<>>,
     hashes |-> {}, all_hashes |-> {}, validation_errors |-> <<>>, conflicts |-> <<>>]

\* a loop body that does not insert the hash of a unique record
DedupProcessStepForgetsHash(p, tx, source, fields, track) ==
    LET hash_value == compute_transaction_hash(tx, fields)
    IN  IF hash_value \in p.seen
        THEN [p EXCEPT !.result.duplicates = Append(@, tx),
                       !.log = IF track
                               THEN LogConflict(@, tx, hash_value, DUPLICATE, source, track)
                               ELSE @,
                       !.result.hashes = @ \cup {hash_value}]
        ELSE [p EXCEPT !.result.unique = Append(@, tx),
                       !.result.hashes = @ \cup {hash_value}]

\* a loop body that lists a duplicate without logging the conflict
DedupProcessStepSilent(p, tx, source, fields, track) ==
    LET hash_value == compute_transaction_hash(tx, fields)
    IN  IF hash_value \in p.seen
        THEN [p EXCEPT !.result.duplicates = Append(@, tx),
                       !.result.hashes = @ \cup {hash_value}]
        ELSE [p EXCEPT !.seen = @ \cup {hash_value},
                       !.result.unique = Append(@, tx),
                       !.result.hashes = @ \cup {hash_value}]

\* a loop body that returns the hashes of the unique records only
DedupProcessStepUniqueHashes(p, tx, source, fields, track) ==
    LET hash_value == compute_transaction_hash(tx, fields)
    IN  IF hash_value \in p.seen
        THEN [p EXCEPT !.result.duplicates = Append(@, tx),
                       !.log = IF track
                               THEN LogConflict(@, tx, hash_value, DUPLICATE, source, track)
                               ELSE @]
        ELSE [p EXCEPT !.seen = @ \cup {hash_value},
                       !.result.unique = Append(@, tx),
                       !.result.hashes = @ \cup {hash_value}]

\* one iteration of the loop of Deduplicator.process
DedupProcessStep(p, tx, source, fields, track) ==
    LET hash_value == compute_transaction_hash(tx, fields)
    IN  IF hash_value \in p.seen
        THEN [p EXCEPT !.result.duplicates = Append(@, tx),
                       !.log = IF track
                               THEN LogConflict(@, tx, hash_value, DUPLICATE, source, track)
                               ELSE @,
                       !.result.hashes = @ \cup {hash_value}]
        ELSE [p EXCEPT !.seen = @ \cup {hash_value},
                       !.result.unique = Append(@, tx),
                       !.result.hashes = @ \cup {hash_value}]

\* Deduplicator.process: the session after the call and the DeduplicationResult
DedupProcess(seen, log, txs, source, fields, track) ==
    LET F[i \in 0..Len(txs)] ==
            IF i = 0 THEN [seen |-> seen, log |-> log, result |-> EmptyResult]
            ELSE DedupProcessStep(F[i - 1], txs[i], source, fields, track)
    IN  F[Len(txs)]

(***************************************************************************)
(* integrity.py                                                            *)
(***************************************************************************)
\* a corrupted branch that also marks the fingerprint of the record as seen
IntegrityCorruptedMarksSeen(p, tx, validation, source, fields, isStrict) ==
    LET q == [p EXCEPT !.result.corrupted = Append(@, tx),
                       !.result.validation_errors = @ \o validation.errors]
        hash_value == compute_transaction_hash(tx, fields)
    IN  IF isStrict
        THEN [q EXCEPT !.raised = "IntegrityError",
                       !.message = <<"Corrupted transaction detected",
                                     validation.errors[1].message>>]
        ELSE [q EXCEPT !.seen = @ \cup {hash_value},
                       !.result.conflicts =
                          Append(@, ConflictRecord(validation.transaction_id, hash_value,
                                                   CORRUPTED, source,
                                                   <<"Corruption detected",
                                                     validation.errors[1].message>>))]

\* IntegrityValidator.process, the branch of a record that failed validation
IntegrityCorrupted(p, tx, validation, source, fields, isStrict) ==
    LET q == [p EXCEPT !.result.corrupted = Append(@, tx),
                       !.result.validation_errors = @ \o validation.errors]
        hash_value == compute_transaction_hash(tx, fields)
    IN  IF isStrict
        THEN [q EXCEPT !.raised = "IntegrityError",
                       !.message = <<"Corrupted transaction detected",
                                     validation.errors[1].message>>]
        ELSE [q EXCEPT !.result.conflicts =
                          Append(@, ConflictRecord(validation.transaction_id, hash_value,
                                                   CORRUPTED, source,
                                                   <<"Corruption detected",
                                                     validation.errors[1].message>>))]

\* a duplicate check that logs a duplicate without listing it
IntegrityDedupDropsDuplicate(p, tx, source, fields, track) ==
    LET hash_value == compute_transaction_hash(tx, fields)
    IN  IF hash_value \in p.seen
        THEN [p EXCEPT !.log = LogConflict(@, tx, hash_value, DUPLICATE, source, track),
                       !.result.all_hashes = @ \cup {hash_value}]
        ELSE [p EXCEPT !.seen = @ \cup {hash_value},
                       !.result.valid = Append(@, tx),
                       !.result.all_hashes = @ \cup {hash_value}]

\* a duplicate check that accepts a record without inserting its hash
IntegrityDedupForgetsHash(p, tx, source, fields, track) ==
    LET hash_value == compute_transaction_hash(tx, fields)
    IN  IF hash_value \in p.seen
        THEN [p EXCEPT !.result.duplicates = Append(@, tx),
                       !.log = LogConflict(@, tx, hash_value, DUPLICATE, source, track),
                       !.result.all_hashes = @ \cup {hash_value}]
        ELSE [p EXCEPT !.result.valid = Append(@, tx),
                       !.result.all_hashes = @ \cup {hash_value}]

\* a duplicate check that treats a duplicate as fatal
IntegrityDedupDuplicateIsFatal(p, tx, source, fields, track) ==
    LET hash_value == compute_transaction_hash(tx, fields)
    IN  IF hash_value \in p.seen
        THEN [p EXCEPT !.result.duplicates = Append(@, tx),
                       !.log = LogConflict(@, tx, hash_value, DUPLICATE, source, track),
                       !.raised = "IntegrityError",
                       !.message = <<"Duplicate transaction detected">>]
        ELSE [p EXCEPT !.seen = @ \cup {hash_value},
                       !.result.valid = Append(@, tx),
                       !.result.all_hashes = @ \cup {hash_value}]

\* IntegrityValidator.process, the duplicate check of a record that passed validation
IntegrityDedup(p, tx, source, fields, track) ==
    LET hash_value == compute_transaction_hash(tx, fields)
    IN  IF hash_value \in p.seen
        THEN [p EXCEPT !.result.duplicates = Append(@, tx),
                       !.log = LogConflict(@, tx, hash_value, DUPLICATE, source, track),
                       !.result.all_hashes = @ \cup {hash_value}]
        ELSE [p EXCEPT !.seen = @ \cup {hash_value},
                       !.result.valid = Append(@, tx),
                       !.result.all_hashes = @ \cup {hash_value}]

\* a loop that records the IntegrityError and goes on with the next record
IntegrityProcessStepGoesOn(p, tx, source, required, types, fields, isStrict, track) ==
    LET validation == validate(tx, <<>>, required, types, fields)
    IN  IF validation.raised # "" THEN [p EXCEPT !.raised = validation.raised]
        ELSE IF ~validation.is_valid
        THEN IntegrityCorrupted(p, tx, validation, source, fields, isStrict)
        ELSE IntegrityDedup(p, tx, source, fields, track)

\* one iteration of the loop of IntegrityValidator.process; nothing runs
\* once an exception has left the loop
IntegrityProcessStep(p, tx, source, required, types, fields, isStrict, track) ==
    LET validation == validate(tx, <<>>, required, types, fields)
    IN  IF p.raised # "" THEN p
        ELSE IF validation.raised # "" THEN [p EXCEPT !.raised = validation.raised]
        ELSE IF ~validation.is_valid
        THEN IntegrityCorrupted(p, tx, validation, source, fields, isStrict)
        ELSE IntegrityDedup(p, tx, source, fields, track)

\* a process that works on a copy of the session and leaves the session alone
IntegrityProcessOnCopy(seen, log, txs, source, required, types, fields, isStrict, track) ==
    LET F[i \in 0..Len(txs)] ==
            IF i = 0
            THEN [seen |-> seen, log |-> log, raised |-> "", message |-> <<>>,
                  result |-> EmptyResult]
            ELSE IntegrityProcessStep(F[i - 1], txs[i], source, required, types, fields,
                                      isStrict, track)
    IN  [F[Len(txs)] EXCEPT !.seen = seen, !.log = log]

\* IntegrityValidator.process: the session after the call, the exception
\* raised ("" when none) and the IntegrityResult built so far
IntegrityProcess(seen, log, txs, source, required, types, fields, isStrict, track) ==
    LET F[i \in 0..Len(txs)] ==
            IF i = 0
            THEN [seen |-> seen, log |-> log, raised |-> "", message |-> <<>>,
                  result |-> EmptyResult]
            ELSE IntegrityProcessStep(F[i - 1], txs[i], source, required, types, fields,
                                      isStrict, track)
    IN  F[Len(txs)]

(***************************************************************************)
(* The session: one IntegrityValidator with the Deduplicator it owns, or   *)
(* a Deduplicator on its own, driven by a caller that issues one call      *)
(* after the other.                                                        *)
(***************************************************************************)
TX1 == Dict(<<<<"id", StrV("1")>>>>)
TX1P == Dict(<<<<"id", StrV("1")>>, <<"payload", StrV("a")>>>>)
TXE == Dict(<<>>)

Transactions == {TX1, TX1P, TXE}
Batches == UNION {[1..n -> Transactions] : n \in 0..MaxBatch}
\* the source argument: no caller in the repository passes one, it stays at its default
Sources == {<<>>}
HashFieldArgs == {<<>>, <<{"id"}>>}
RequiredArgs == {<<>>, <<{"id", "payload"}>>}

\* StateStore.load on a path that holds no file yet
NoStore == [last_processed_ledger |-> <<>>, processed_ledgers |-> {}]

NoIngest ==
    [op |-> "none", start_ledger |-> <<>>, end_ledger |-> <<>>, range |-> <<>>,
     store0 |-> NoStore, raised |-> "", at |-> <<>>, attempted |-> <<>>, processed |-> <<>>, skipped |-> <<>>,
     fetched |-> <<>>, handled |-> <<>>]

NoCallbacks == [once |-> {}, again |-> {}]

\* no ingestion has run: the state file is not there and process_fn was never invoked
InitIngestion ==
    /\ state_store = NoStore
    /\ ingest_call = NoIngest
    /\ callbacks = NoCallbacks

\* one caller only: no add call of another caller is under way
NoSharing == threads = <<>>

\* the caller's view of a call: its arguments, the session it found
\* (seen0, log0) and what came back
NoValidation ==
    [raised |-> "", is_valid |-> FALSE, errors |-> <<>>, transaction_id |-> NoneV,
     hash |-> NoHash]

NoCall ==
    [op |-> "none", txs |-> <<>>, source |-> <<>>, stored_hash |-> <<>>,
     return_unique |-> TRUE,
     seen0 |-> {}, log0 |-> <<>>, raised |-> "", message |-> <<>>,
     ret |-> FALSE, out |-> <<>>, result |-> EmptyResult, validation |-> NoValidation]

\* IntegrityValidator.__init__ builds its Deduplicator with track_conflicts
\* left at its default; a Deduplicator on its own takes either value and has
\* no validator.
Init ==
    /\ hash_fields \in HashFieldArgs
    /\ track_conflicts \in BOOLEAN
    /\ strict \in (IF track_conflicts THEN BOOLEAN ELSE {FALSE})
    /\ \E arg \in (IF track_conflicts THEN RequiredArgs ELSE {<<>>}) :
           required_fields \in Enumerations(RequiredOrDefault(arg))
    /\ field_types = <<>>
    /\ seen_hashes = {}
    /\ conflicts = <<>>
    /\ call = NoCall
    /\ NoSharing
    /\ InitIngestion

Idle == call.op = "none"
IsPipeline == track_conflicts

Called(op) == [NoCall EXCEPT !.op = op, !.seen0 = seen_hashes, !.log0 = conflicts]

\* what every call leaves behind: the session and the caller's view of the call
Return(seen, log, c) ==
    /\ Len(log) <= MaxLog
    /\ seen_hashes' = seen
    /\ conflicts' = log
    /\ call' = c
    /\ UNCHANGED <<config, threads, ingestion>>

\* Deduplicator.add
Add(tx, source) ==
    /\ Idle
    /\ \E r \in {DedupAdd(seen_hashes, conflicts, tx, source, hash_fields, track_conflicts)} :
           Return(r.seen, r.log,
                  [Called("add") EXCEPT !.txs = <<tx>>, !.source = source, !.ret = r.ret])

\* IntegrityValidator.add_transaction
AddTransaction(tx, source) ==
    /\ Idle /\ IsPipeline
    /\ \E r \in {DedupAdd(seen_hashes, conflicts, tx, source, hash_fields, track_conflicts)} :
           Return(r.seen, r.log,
                  [Called("add_transaction") EXCEPT !.txs = <<tx>>, !.source = source,
                                                    !.ret = r.ret])

\* Deduplicator.check
Check(tx) ==
    /\ Idle
    /\ Return(seen_hashes, conflicts,
              [Called("check") EXCEPT !.txs = <<tx>>,
                                      !.ret = DedupCheck(seen_hashes, tx, hash_fields)])

\* IntegrityValidator.check_duplicate
CheckDuplicate(tx) ==
    /\ Idle /\ IsPipeline
    /\ Return(seen_hashes, conflicts,
              [Called("check_duplicate") EXCEPT !.txs = <<tx>>,
                                      !.ret = DedupCheck(seen_hashes, tx, hash_fields)])

\* a reset that clears the seen hashes only
DedupResetKeepsLog(seen, log) == [seen |-> {}, log |-> log]

\* Deduplicator.reset: the session after the call
DedupReset(seen, log) == [seen |-> {}, log |-> <<>>]

\* Deduplicator.reset
Reset ==
    /\ Idle
    /\ \E r \in {DedupReset(seen_hashes, conflicts)} :
           Return(r.seen, r.log, Called("reset"))

\* IntegrityValidator.reset
IntegrityReset ==
    /\ Idle /\ IsPipeline
    /\ \E r \in {DedupReset(seen_hashes, conflicts)} :
           Return(r.seen, r.log, Called("integrity_reset"))

\* Deduplicator.process
Process(txs, source) ==
    /\ Idle
    /\ \E r \in {DedupProcess(seen_hashes, conflicts, txs, source, hash_fields,
                              track_conflicts)} :
           Return(r.seen, r.log,
                  [Called("process") EXCEPT !.txs = txs, !.source = source,
                                            !.result = r.result])

\* Deduplicator.filter_duplicates
FilterDuplicates(txs, return_unique) ==
    /\ Idle
    /\ \E r \in {DedupProcess(seen_hashes, conflicts, txs, <<>>, hash_fields,
                              track_conflicts)} :
           Return(r.seen, r.log,
                  [Called("filter_duplicates") EXCEPT
                       !.txs = txs, !.return_unique = return_unique,
                       !.out = IF return_unique THEN r.result.unique
                               ELSE r.result.duplicates])

\* IntegrityValidator.process: an exception leaves the call without an
\* IntegrityResult
IntegrityValidatorProcess(txs, source) ==
    /\ Idle /\ IsPipeline
    /\ \E r \in {IntegrityProcess(seen_hashes, conflicts, txs, source, required_fields,
                                  field_types, hash_fields, strict, track_conflicts)} :
           Return(r.seen, r.log,
                  [Called("integrity_process") EXCEPT
                       !.txs = txs, !.source = source, !.raised = r.raised,
                       !.message = r.message,
                       !.result = IF r.raised = "" THEN r.result ELSE EmptyResult])

\* IntegrityValidator.verify_integrity
VerifyIntegrity(txs) ==
    /\ Idle /\ IsPipeline
    /\ \E r \in {IntegrityProcess(seen_hashes, conflicts, txs, <<>>, required_fields,
                                  field_types, hash_fields, strict, track_conflicts)} :
           Return(r.seen, r.log,
                  [Called("verify_integrity") EXCEPT
                       !.txs = txs, !.raised = r.raised, !.message = r.message,
                       !.ret = IF r.raised = ""
                               THEN Len(r.result.corrupted) = 0
                                    /\ ~(Len(r.result.duplicates) > 0)
                               ELSE FALSE])

\* the caller is done with what the call returned or raised and goes on
Consume ==
    /\ ~Idle
    /\ call' = NoCall
    /\ UNCHANGED <<config, seen_hashes, conflicts, threads, ingestion>>

Next ==
    \/ \E tx \in Transactions, source \in Sources : Add(tx, source)
    \/ \E tx \in Transactions, source \in Sources : AddTransaction(tx, source)
    \/ \E tx \in Transactions : Check(tx)
    \/ \E tx \in Transactions : CheckDuplicate(tx)
    \/ Reset
    \/ IntegrityReset
    \/ \E txs \in Batches, source \in Sources : Process(txs, source)
    \/ \E txs \in Batches, return_unique \in BOOLEAN : FilterDuplicates(txs, return_unique)
    \/ \E txs \in Batches, source \in Sources : IntegrityValidatorProcess(txs, source)
    \/ \E txs \in Batches : VerifyIntegrity(txs)
    \/ Consume

Spec == Init /\ [][Next]_vars

(***************************************************************************)
(* The validator on its own: a TransactionValidator, or the one an         *)
(* IntegrityValidator owns, handed objects of any kind.                    *)
(***************************************************************************)
TXN == Dict(<<<<"id", NoneV>>>>)
TXI == Dict(<<<<"id", IntV("123")>>>>)
TXA == Dict(<<<<"amount", StrV("x")>>, <<"id", StrV("1")>>>>)
TXIA == Dict(<<<<"id", IntV("123")>>, <<"amount", StrV("x")>>>>)
NotADict == PyStr("not a dict")

ValidatorInputs == {TX1, TX1P, TXE, TXN, TXI, TXA, TXIA, NotADict}
FieldTypeArgs ==
    {<<>>, <<<<"id", "str">>>>, <<<<"id", "str">>, <<"amount", "int">>>>,
     <<<<"amount", "int">>, <<"id", "str">>>>}
ValidatorRequiredArgs == {<<>>, <<{}>>, <<{"id", "payload"}>>}

\* the stored hashes a caller may hold: none, or the hash a record had
StoredHashes(fields) ==
    {<<>>} \cup {<<compute_transaction_hash(tx, fields)>> : tx \in {TX1, TX1P}}

InitValidator ==
    /\ hash_fields \in HashFieldArgs
    /\ \E arg \in ValidatorRequiredArgs :
           required_fields \in Enumerations(RequiredOrDefault(arg))
    /\ field_types \in FieldTypeArgs
    /\ strict = FALSE
    /\ track_conflicts = TRUE
    /\ seen_hashes = {}
    /\ conflicts = <<>>
    /\ call = NoCall
    /\ NoSharing
    /\ InitIngestion

\* TransactionValidator.validate
Validate(tx, stored_hash) ==
    /\ Idle
    /\ \E v \in {validate(tx, stored_hash, required_fields, field_types, hash_fields)} :
           Return(seen_hashes, conflicts,
                  [Called("validate") EXCEPT !.txs = <<tx>>, !.stored_hash = stored_hash,
                                             !.raised = v.raised, !.validation = v])

\* IntegrityValidator.validate_transaction
ValidateTransaction(tx) ==
    /\ Idle /\ IsPipeline
    /\ \E v \in {validate(tx, <<>>, required_fields, field_types, hash_fields)} :
           Return(seen_hashes, conflicts,
                  [Called("validate_transaction") EXCEPT !.txs = <<tx>>,
                                             !.raised = v.raised, !.validation = v])

NextValidator ==
    \/ \E tx \in ValidatorInputs, stored_hash \in StoredHashes(hash_fields) :
           Validate(tx, stored_hash)
    \/ \E tx \in ValidatorInputs : ValidateTransaction(tx)
    \/ Consume

SpecValidator == InitValidator /\ [][NextValidator]_vars

(***************************************************************************)
(* The batch validator: a TransactionValidator whose caller validates      *)
(* batches against lists of stored hashes of any length.                   *)
(***************************************************************************)
BatchInputs == {TX1, TX1P, TXE, NotADict}
ValidatorBatches == UNION {[1..n -> BatchInputs] : n \in 0..MaxBatch}

\* the stored_hashes argument: None, or a list of hashes that records had
StoredHashLists(fields) ==
    {<<>>} \cup {<<l>> : l \in UNION {[1..n -> {compute_transaction_hash(tx, fields) :
                                                  tx \in {TX1, TX1P}}] : n \in 0..MaxBatch}}

InitBatch ==
    /\ hash_fields \in HashFieldArgs
    /\ required_fields = <<"id">>
    /\ field_types = <<>>
    /\ strict = FALSE
    /\ track_conflicts = FALSE
    /\ seen_hashes = {}
    /\ conflicts = <<>>
    /\ call = NoCall
    /\ NoSharing
    /\ InitIngestion

\* TransactionValidator.validate_batch; stored_hash holds the stored_hashes
\* argument and out the list of ValidationResult
ValidateBatch(txs, stored_hashes) ==
    /\ Idle
    /\ \E r \in {validate_batch(txs, stored_hashes, required_fields, field_types,
                                hash_fields)} :
           Return(seen_hashes, conflicts,
                  [Called("validate_batch") EXCEPT !.txs = txs,
                                                   !.stored_hash = stored_hashes,
                                                   !.raised = r.raised,
                                                   !.out = r.results])

NextBatch ==
    \/ \E txs \in ValidatorBatches, stored_hashes \in StoredHashLists(hash_fields) :
           ValidateBatch(txs, stored_hashes)
    \/ Consume

SpecBatch == InitBatch /\ [][NextBatch]_vars

(***************************************************************************)
(* A Deduplicator handed records that lack hash fields or hold them with   *)
(* a null value.                                                           *)
(***************************************************************************)
\* a record without any hash field, and TX1 with a null payload
TXAM == Dict(<<<<"amount", StrV("x")>>>>)
TXPN == Dict(<<<<"id", StrV("1")>>, <<"payload", NoneV>>>>)

AbsentInputs == {TX1, TXE, TXN, TXAM, TXPN}
AbsentBatches == UNION {[1..n -> AbsentInputs] : n \in 0..MaxBatch}

InitAbsent ==
    /\ hash_fields \in HashFieldArgs
    /\ required_fields = <<"id">>
    /\ field_types = <<>>
    /\ strict = FALSE
    /\ track_conflicts = FALSE
    /\ seen_hashes = {}
    /\ conflicts = <<>>
    /\ call = NoCall
    /\ NoSharing
    /\ InitIngestion

NextAbsent ==
    \/ \E txs \in AbsentBatches : Process(txs, <<>>)
    \/ Reset
    \/ Consume

SpecAbsent == InitAbsent /\ [][NextAbsent]_vars

(***************************************************************************)
(* A TransactionValidator and an IntegrityValidator constructed with       *)
(* required_fields=set().                                                  *)
(***************************************************************************)
EmptyRequiredInputs == {TX1, TXE, TXN}
EmptyRequiredBatches == UNION {[1..n -> EmptyRequiredInputs] : n \in 0..MaxBatch}

InitEmptyRequired ==
    /\ hash_fields \in HashFieldArgs
    /\ required_fields \in Enumerations(RequiredOrDefault(<<{}>>))
    /\ field_types = <<>>
    /\ strict \in BOOLEAN
    /\ track_conflicts = TRUE
    /\ seen_hashes = {}
    /\ conflicts = <<>>
    /\ call = NoCall
    /\ NoSharing
    /\ InitIngestion

NextEmptyRequired ==
    \/ \E tx \in EmptyRequiredInputs, stored_hash \in StoredHashes(hash_fields) :
           Validate(tx, stored_hash)
    \/ \E tx \in EmptyRequiredInputs : ValidateTransaction(tx)
    \/ \E txs \in EmptyRequiredBatches : IntegrityValidatorProcess(txs, <<>>)
    \/ IntegrityReset
    \/ Consume

SpecEmptyRequired == InitEmptyRequired /\ [][NextEmptyRequired]_vars

(***************************************************************************)
(* The hashing functions on their own: a caller that hashes records and    *)
(* batches with a field set of its choice (hash_fields holds the `fields`  *)
(* argument it passes).                                                    *)
(***************************************************************************)
\* TX1P with its keys in the other order, with a field no hash field set
\* holds, and with another payload
TXPR == Dict(<<<<"payload", StrV("a")>>, <<"id", StrV("1")>>>>)
TX1PA == Dict(<<<<"id", StrV("1")>>, <<"payload", StrV("a")>>, <<"amount", StrV("x")>>>>)
TX1Q == Dict(<<<<"id", StrV("1")>>, <<"payload", StrV("b")>>>>)

HashInputs == {TX1, TX1P, TXE, TXA, TXPR, TX1PA, TX1Q}
HashBatches == UNION {[1..n -> HashInputs] : n \in 0..MaxBatch}

InitHash ==
    /\ hash_fields \in HashFieldArgs
    /\ required_fields = <<"id">>
    /\ field_types = <<>>
    /\ strict = FALSE
    /\ track_conflicts = FALSE
    /\ seen_hashes = {}
    /\ conflicts = <<>>
    /\ call = NoCall
    /\ NoSharing
    /\ InitIngestion

\* compute_transaction_hash(transaction, fields)
ComputeTransactionHash(tx) ==
    /\ Idle
    /\ Return(seen_hashes, conflicts,
              [Called("compute_transaction_hash") EXCEPT
                   !.txs = <<tx>>, !.out = <<compute_transaction_hash(tx, hash_fields)>>])

\* verify_transaction_hash(transaction, expected_hash, fields)
VerifyTransactionHash(tx, expected_hash) ==
    /\ Idle
    /\ Return(seen_hashes, conflicts,
              [Called("verify_transaction_hash") EXCEPT
                   !.txs = <<tx>>, !.stored_hash = <<expected_hash>>,
                   !.ret = (compute_transaction_hash(tx, hash_fields) = expected_hash)])

\* hash_batch(transactions, fields)
HashBatch(txs) ==
    /\ Idle
    /\ Return(seen_hashes, conflicts,
              [Called("hash_batch") EXCEPT
                   !.txs = txs,
                   !.out = [i \in 1..Len(txs) |->
                               compute_transaction_hash(txs[i], hash_fields)]])

NextHash ==
    \/ \E tx \in HashInputs : ComputeTransactionHash(tx)
    \/ \E tx \in HashInputs, expected \in HashInputs :
           VerifyTransactionHash(tx, compute_transaction_hash(expected, hash_fields))
    \/ \E txs \in HashBatches : HashBatch(txs)
    \/ Consume

SpecHash == InitHash /\ [][NextHash]_vars

(***************************************************************************)
(* ingestion/state.py, ingestion/service.py                                *)
(***************************************************************************)
\* StateStore.mark_processed: load, add the ledger, advance
\* last_processed_ledger, save
MarkProcessed(store, ledger_id) ==
    [last_processed_ledger |->
         IF store.last_processed_ledger = <<>> THEN <<ledger_id>>
         ELSE IF store.last_processed_ledger[1] > ledger_id
              THEN store.last_processed_ledger
              ELSE <<ledger_id>>,
     processed_ledgers |-> store.processed_ledgers \cup {ledger_id}]

\* IngestionService.ingest, from the load to the range check: the range to
\* attempt, none ("empty"), or ValueError ("error")
ResolveRange(store, start_ledger, end_ledger) ==
    LET last == store.last_processed_ledger
        start == IF start_ledger = <<>> /\ last # <<>> THEN <<last[1] + 1>> ELSE start_ledger
        end == IF end_ledger = <<>> /\ start # <<>> THEN start ELSE end_ledger
    IN  IF start_ledger = <<>> /\ end_ledger = <<>> /\ last = <<>>
        THEN [kind |-> "empty", range |-> <<>>]
        ELSE IF start = <<>> \/ end = <<>>
        THEN [kind |-> "empty", range |-> <<>>]
        ELSE IF end[1] < start[1]
        THEN [kind |-> "error", range |-> <<>>]
        ELSE [kind |-> "range", range |-> <<start[1], end[1]>>]

\* a loop body that does not look the ledger up in processed_set
IngestStepNeverSkips(p, ledger_id, fail) ==
    IF p.raised # "" THEN p
    ELSE LET q == [p EXCEPT !.attempted = Append(@, ledger_id)]
         IN  IF fail = <<ledger_id, "fetch">>
             THEN [q EXCEPT !.fetched = Append(@, ledger_id),
                            !.raised = "FetchError", !.at = <<ledger_id>>]
             ELSE IF fail = <<ledger_id, "process">>
             THEN [q EXCEPT !.fetched = Append(@, ledger_id),
                            !.handled = Append(@, ledger_id),
                            !.raised = "ProcessError", !.at = <<ledger_id>>]
             ELSE [q EXCEPT !.fetched = Append(@, ledger_id),
                            !.handled = Append(@, ledger_id),
                            !.store = MarkProcessed(@, ledger_id),
                            !.processed_set = @ \cup {ledger_id},
                            !.processed = Append(@, ledger_id)]

\* a loop body that keeps the processed ledgers in memory and does not
\* write them to the state file
IngestStepKeepsInMemory(p, ledger_id, fail) ==
    IF p.raised # "" THEN p
    ELSE LET q == [p EXCEPT !.attempted = Append(@, ledger_id)]
         IN  IF ledger_id \in p.processed_set
             THEN [q EXCEPT !.skipped = Append(@, ledger_id)]
             ELSE IF fail = <<ledger_id, "fetch">>
             THEN [q EXCEPT !.fetched = Append(@, ledger_id),
                            !.raised = "FetchError", !.at = <<ledger_id>>]
             ELSE IF fail = <<ledger_id, "process">>
             THEN [q EXCEPT !.fetched = Append(@, ledger_id),
                            !.handled = Append(@, ledger_id),
                            !.raised = "ProcessError", !.at = <<ledger_id>>]
             ELSE [q EXCEPT !.fetched = Append(@, ledger_id),
                            !.handled = Append(@, ledger_id),
                            !.processed_set = @ \cup {ledger_id},
                            !.processed = Append(@, ledger_id)]

\* one iteration of the loop of IngestionService.ingest.  fail names the
\* ledger on which fetch_fn or process_fn raises, <<>> when neither does;
\* fetched and handled are the ledgers fetch_fn and process_fn were invoked
\* on.  Nothing runs once an exception has left the loop.
IngestStep(p, ledger_id, fail) ==
    IF p.raised # "" THEN p
    ELSE LET q == [p EXCEPT !.attempted = Append(@, ledger_id)]
         IN  IF ledger_id \in p.processed_set
             THEN [q EXCEPT !.skipped = Append(@, ledger_id)]
             ELSE IF fail = <<ledger_id, "fetch">>
             THEN [q EXCEPT !.fetched = Append(@, ledger_id),
                            !.raised = "FetchError", !.at = <<ledger_id>>]
             ELSE IF fail = <<ledger_id, "process">>
             THEN [q EXCEPT !.fetched = Append(@, ledger_id),
                            !.handled = Append(@, ledger_id),
                            !.raised = "ProcessError", !.at = <<ledger_id>>]
             ELSE [q EXCEPT !.fetched = Append(@, ledger_id),
                            !.handled = Append(@, ledger_id),
                            !.store = MarkProcessed(@, ledger_id),
                            !.processed_set = @ \cup {ledger_id},
                            !.processed = Append(@, ledger_id)]

\* IngestionService.ingest: the state file after the call, the exception
\* raised ("" when none), the lists built and the callbacks invoked
IngestRun(store, start_ledger, end_ledger, fail) ==
    LET r == ResolveRange(store, start_ledger, end_ledger)
        p0 == [store |-> store, processed_set |-> store.processed_ledgers,
               range |-> r.range, raised |-> "", at |-> <<>>,
               attempted |-> <<>>, processed |-> <<>>, skipped |-> <<>>,
               fetched |-> <<>>, handled |-> <<>>]
    IN  IF r.kind = "empty" THEN p0
        ELSE IF r.kind = "error" THEN [p0 EXCEPT !.raised = "ValueError"]
        ELSE LET n == r.range[2] - r.range[1] + 1
                 F[i \in 0..n] ==
                     IF i = 0 THEN p0 ELSE IngestStep(F[i - 1], r.range[1] + i - 1, fail)
             IN  F[n]

(***************************************************************************)
(* The ingestion service: one IngestionService on one state file, its      *)
(* caller issuing one ingest call after the other.                         *)
(***************************************************************************)
LedgerArgs == {<<>>} \cup {<<n>> : n \in 0..MaxLedger}
Failures == {<<>>} \cup {<<n, f>> : n \in 0..MaxLedger, f \in {"fetch", "process"}}

InitIngest ==
    /\ hash_fields = <<>>
    /\ required_fields = <<"id">>
    /\ field_types = <<>>
    /\ strict = FALSE
    /\ track_conflicts = TRUE
    /\ seen_hashes = {}
    /\ conflicts = <<>>
    /\ call = NoCall
    /\ NoSharing
    /\ InitIngestion

Range(seq) == {seq[i] : i \in 1..Len(seq)}

\* IngestionService.ingest; an exception leaves the call without an
\* IngestionResult
Ingest(start_ledger, end_ledger, fail) ==
    /\ ingest_call.op = "none"
    /\ \E r \in {IngestRun(state_store, start_ledger, end_ledger, fail)} :
           /\ r.range # <<>> => r.range[2] <= MaxLedger
           /\ state_store' = r.store
           /\ ingest_call' =
                  [op |-> "ingest", start_ledger |-> start_ledger,
                   end_ledger |-> end_ledger, range |-> r.range,
                   store0 |-> state_store, raised |-> r.raised, at |-> r.at,
                   attempted |-> IF r.raised = "" THEN r.attempted ELSE <<>>,
                   processed |-> IF r.raised = "" THEN r.processed ELSE <<>>,
                   skipped |-> IF r.raised = "" THEN r.skipped ELSE <<>>,
                   fetched |-> r.fetched, handled |-> r.handled]
           /\ callbacks' = [once |-> callbacks.once \cup Range(r.handled),
                            again |-> callbacks.again
                                        \cup (callbacks.once \cap Range(r.handled))]
    /\ UNCHANGED <<config, seen_hashes, conflicts, call, threads>>

\* the caller is done with what the ingest call returned or raised
ConsumeIngest ==
    /\ ingest_call.op # "none"
    /\ ingest_call' = NoIngest
    /\ UNCHANGED <<config, seen_hashes, conflicts, call, threads, state_store, callbacks>>

\* fetch_fn and process_fn never raise
NextIngest ==
    \/ \E start_ledger \in LedgerArgs, end_ledger \in LedgerArgs :
           Ingest(start_ledger, end_ledger, <<>>)
    \/ ConsumeIngest

SpecIngest == InitIngest /\ [][NextIngest]_vars

\* fetch_fn or process_fn may raise
NextIngestRetry ==
    \/ \E start_ledger \in LedgerArgs, end_ledger \in LedgerArgs, fail \in Failures :
           Ingest(start_ledger, end_ledger, fail)
    \/ ConsumeIngest

SpecIngestRetry == InitIngest /\ [][NextIngestRetry]_vars

(***************************************************************************)
(* Two callers sharing one Deduplicator without a lock: each issues one    *)
(* add, and the scheduler may switch callers between the membership test   *)
(* and the insert.                                                         *)
(***************************************************************************)
Callers == {"first", "second"}
OtherCaller(c) == CHOOSE o \in Callers : o # c

InitShared ==
    /\ hash_fields \in HashFieldArgs
    /\ track_conflicts \in BOOLEAN
    /\ strict = FALSE
    /\ required_fields = <<"id">>
    /\ field_types = <<>>
    /\ seen_hashes = {}
    /\ conflicts = <<>>
    /\ call = NoCall
    /\ threads \in [Callers -> {[pc |-> "start", tx |-> tx, present |-> FALSE,
                                 ret |-> FALSE, interleaved |-> FALSE] :
                                    tx \in Transactions}]
    /\ InitIngestion

\* caller c runs add up to the membership test; the two calls interleave
\* when the other caller has tested and not yet finished
SharedAddTest(c) ==
    /\ threads[c].pc = "start"
    /\ LET o == OtherCaller(c)
           t == DedupAddTest(seen_hashes, threads[c].tx, hash_fields)
           between == threads[o].pc = "tested"
       IN  threads' = [threads EXCEPT ![c].pc = "tested",
                                      ![c].present = t.present,
                                      ![c].interleaved = between,
                                      ![o].interleaved = @ \/ between]
    /\ UNCHANGED <<config, seen_hashes, conflicts, call, ingestion>>

\* caller c runs the rest of add and returns
SharedAddFinish(c) ==
    /\ threads[c].pc = "tested"
    /\ \E r \in {DedupAddFinish(seen_hashes, conflicts, threads[c].tx, <<>>,
                                hash_fields, track_conflicts, threads[c].present)} :
           /\ seen_hashes' = r.seen
           /\ conflicts' = r.log
           /\ threads' = [threads EXCEPT ![c].pc = "done", ![c].ret = r.ret]
    /\ UNCHANGED <<config, call, ingestion>>

NextShared ==
    \/ \E c \in Callers : SharedAddTest(c)
    \/ \E c \in Callers : SharedAddFinish(c)

SpecShared == InitShared /\ [][NextShared]_vars

(***************************************************************************)
(* Notions the properties are stated with                                  *)
(***************************************************************************)
Fingerprint(tx) == compute_transaction_hash(tx, hash_fields)

PassesValidation(tx) ==
    validate(tx, <<>>, required_fields, field_types, hash_fields).is_valid

FirstError(tx) ==
    validate(tx, <<>>, required_fields, field_types, hash_fields).errors[1]

Count(seq, x) == Cardinality({i \in 1..Len(seq) : seq[i] = x})

\* the subsequence of seq at the positions in I, in the order of seq
Pick(seq, I) ==
    LET F[i \in 0..Len(seq)] ==
            IF i = 0 THEN <<>>
            ELSE IF i \in I THEN Append(F[i - 1], seq[i]) ELSE F[i - 1]
    IN  F[Len(seq)]

IsPrefix(a, b) == Len(a) <= Len(b) /\ \A i \in 1..Len(a) : a[i] = b[i]

\* the positions among I whose fingerprint occurs at no earlier position of I
FirstOccurrences(txs, I) ==
    {i \in I : \A j \in I : j < i => Fingerprint(txs[j]) # Fingerprint(txs[i])}

ValidPositions(txs) == {i \in 1..Len(txs) : PassesValidation(txs[i])}

Returned(op) == call.op = op /\ call.raised = ""

\* the hash field set in force: the fields argument, or the default
HashFields == IF hash_fields = <<>> THEN DEFAULT_HASH_FIELDS ELSE hash_fields[1]

\* a and b hold the same fields of F, with the same values
SameProjection(a, b, F) ==
    \A k \in F : /\ Contains(a, k) <=> Contains(b, k)
                 /\ Contains(a, k) => Item(a, k) = Item(b, k)

\* the position of x in a sequence that holds it once
PosIn(seq, x) == CHOOSE i \in 1..Len(seq) : seq[i] = x

\* the number of errors of a kind, about a field (<<>>: about no field)
ErrorCount(errors, etype, fld) ==
    Cardinality({i \in 1..Len(errors) :
                    errors[i].error_type = etype /\ errors[i].field = fld})

\* the place of an error kind in the order validate runs its checks
KindRank(etype) ==
    CASE etype = MISSING_FIELD -> 1
      [] etype = INVALID_TYPE -> 2
      [] etype = MALFORMED_STRUCTURE -> 3
      [] etype = HASH_MISMATCH -> 4

\* the positions in I, in increasing order
Positions(n, I) == Pick([i \in 1..n |-> i], I)

\* the conflicts of one kind, in the order of the list
OfKind(cs, kind) ==
    LET F[i \in 0..Len(cs)] ==
            IF i = 0 THEN <<>>
            ELSE IF cs[i].conflict_type = kind THEN Append(F[i - 1], cs[i]) ELSE F[i - 1]
    IN  F[Len(cs)]

\* Deduplicator.add called on each record of txs in turn: the session it
\* leaves and the values it returned
AddEach(seen, log, txs, source) ==
    LET F[i \in 0..Len(txs)] ==
            IF i = 0 THEN [seen |-> seen, log |-> log, rets |-> <<>>]
            ELSE LET r == DedupAdd(F[i - 1].seen, F[i - 1].log, txs[i], source,
                                   hash_fields, track_conflicts)
                 IN  [seen |-> r.seen, log |-> r.log, rets |-> Append(F[i - 1].rets, r.ret)]
    IN  F[Len(txs)]

\* `v in S` for a Python value v and a set S of digests.  A digest is a str
\* of 64 hexadecimal characters; the model keeps it as what it was computed
\* from, tagged "sha256", and no str of the model has such a text.
ValueIn(v, S) == \E h \in S : h[1] = v[1] /\ h[2] = v[2]

\* the keys of a dict, in the order the dict holds them
Keys(tx) == [i \in 1..Len(tx.items) |-> tx.items[i][1]]

FirstOccurrenceWins ==
    /\ (Returned("process") /\ call.seen0 = {}) =>
           LET all == 1..Len(call.txs)
               first == FirstOccurrences(call.txs, all)
           IN  /\ call.result.unique = Pick(call.txs, first)
               /\ call.result.duplicates = Pick(call.txs, all \ first)
    /\ (Returned("integrity_process") /\ call.seen0 = {}) =>
           LET ok == ValidPositions(call.txs)
               first == FirstOccurrences(call.txs, ok)
           IN  /\ call.result.valid = Pick(call.txs, first)
               /\ call.result.duplicates = Pick(call.txs, ok \ first)

FirstOccurrenceWinsWitness ==
    /\ Returned("integrity_process") /\ call.seen0 = {}
    /\ Len(call.txs) = 3
    /\ Len(call.result.valid) = 2
    /\ call.result.valid[1] # call.result.valid[2]
    /\ call.result.duplicates = <<call.txs[1]>>
    /\ call.txs[3] = call.txs[1]

(***************************************************************************)
(* C3  Strict abort.  In strict mode IntegrityValidator.process on a batch *)
(* whose first corrupted record is at position k raises IntegrityError     *)
(* with the message of that record's first validation error, returns no    *)
(* IntegrityResult, and leaves the session as processing the records       *)
(* before k alone leaves it: no later record reaches the seen set or the   *)
(* conflict log.                                                           *)
(***************************************************************************)
StrictAbort ==
    (call.op = "integrity_process" /\ strict
       /\ ValidPositions(call.txs) # 1..Len(call.txs)) =>
        LET k == CHOOSE i \in 1..Len(call.txs) :
                     /\ ~PassesValidation(call.txs[i])
                     /\ \A j \in 1..(i - 1) : PassesValidation(call.txs[j])
            before == {Fingerprint(call.txs[j]) : j \in 1..(k - 1)}
            dups == {j \in 1..(k - 1) :
                        \/ Fingerprint(call.txs[j]) \in call.seen0
                        \/ \E i \in 1..(j - 1) :
                               Fingerprint(call.txs[i]) = Fingerprint(call.txs[j])}
        IN  /\ call.raised = "IntegrityError"
            /\ call.message = <<"Corrupted transaction detected",
                                FirstError(call.txs[k]).message>>
            /\ call.result = EmptyResult
            /\ seen_hashes = call.seen0 \cup before
            /\ IsPrefix(call.log0, conflicts)
            /\ Len(conflicts) = Len(call.log0) + Cardinality(dups)
            /\ \A n \in (Len(call.log0) + 1)..Len(conflicts) :
                   conflicts[n].hash \in call.seen0 \cup before

StrictAbortWitness ==
    /\ call.op = "integrity_process" /\ strict
    /\ call.raised = "IntegrityError"
    /\ Len(call.txs) = 3
    /\ PassesValidation(call.txs[1])
    /\ ~PassesValidation(call.txs[2])
    /\ PassesValidation(call.txs[3])
    /\ Fingerprint(call.txs[3]) \notin seen_hashes

(***************************************************************************)
(* C4  No partial application.  When a strict IntegrityValidator.process   *)
(* raises IntegrityError, the seen set and the conflict log are what they  *)
(* were before the call.  The code inserts the fingerprints of the valid   *)
(* records, and logs the duplicates, that precede the corrupted record     *)
(* before it raises, so this statement does not hold of it.                *)
(***************************************************************************)
StrictErrorLeavesSessionUnchanged ==
    (call.op = "integrity_process" /\ call.raised = "IntegrityError") =>
        /\ seen_hashes = call.seen0
        /\ conflicts = call.log0

AddContract ==
    call.op \in {"add", "add_transaction"} =>
        LET tx == call.txs[1]
            h == Fingerprint(tx)
        IN  IF h \in call.seen0
            THEN /\ call.ret = FALSE
                 /\ seen_hashes = call.seen0
                 /\ IF track_conflicts
                    THEN /\ Len(conflicts) = Len(call.log0) + 1
                         /\ IsPrefix(call.log0, conflicts)
                         /\ conflicts[Len(conflicts)].conflict_type = DUPLICATE
                         /\ conflicts[Len(conflicts)].hash = h
                         /\ conflicts[Len(conflicts)].transaction_id = DictGet(tx, "id")
                         /\ conflicts[Len(conflicts)].source = call.source
                    ELSE conflicts = call.log0
            ELSE /\ call.ret = TRUE
                 /\ seen_hashes = call.seen0 \cup {h}
                 /\ conflicts = call.log0

AddContractWitness ==
    /\ call.op = "add"
    /\ track_conflicts
    /\ call.ret = FALSE
    /\ call.log0 # <<>>
    /\ Len(conflicts) = Len(call.log0) + 1

(***************************************************************************)
(* C7  Deduplicator.check and IntegrityValidator.check_duplicate return    *)
(* true exactly when the fingerprint of the record is in the seen set, and *)
(* leave the seen set and the conflict log as they were.                   *)
(***************************************************************************)
CheckIsPure ==
    call.op \in {"check", "check_duplicate"} =>
        /\ call.ret <=> (Fingerprint(call.txs[1]) \in call.seen0)
        /\ seen_hashes = call.seen0
        /\ conflicts = call.log0

CheckIsPureWitness ==
    /\ call.op = "check_duplicate"
    /\ call.ret = TRUE
    /\ hash_fields # <<>>
    /\ conflicts # <<>>

(***************************************************************************)
(* C8  Deduplicator.reset and IntegrityValidator.reset empty the seen set  *)
(* and the conflict log from any state, and every record whose fingerprint *)
(* was seen before the reset is accepted again after it: add returns true  *)
(* for it and, when it passes validation, process puts it in valid.        *)
(***************************************************************************)
ResetClears ==
    call.op \in {"reset", "integrity_reset"} =>
        /\ seen_hashes = {}
        /\ conflicts = <<>>
        /\ \A tx \in Transactions :
               Fingerprint(tx) \in call.seen0 =>
                   /\ DedupAdd(seen_hashes, conflicts, tx, <<>>, hash_fields,
                               track_conflicts).ret
                   /\ (track_conflicts /\ PassesValidation(tx)) =>
                          IntegrityProcess(seen_hashes, conflicts, <<tx>>, <<>>,
                                           required_fields, field_types, hash_fields,
                                           strict, track_conflicts).result.valid = <<tx>>

ResetClearsWitness ==
    /\ call.op = "integrity_reset"
    /\ Cardinality(call.seen0) > 1
    /\ call.log0 # <<>>
    /\ \E tx \in Transactions : Fingerprint(tx) \in call.seen0 /\ PassesValidation(tx)

(***************************************************************************)
(* C9  Between two resets the session only grows: every step that is not   *)
(* a reset leaves the seen set a superset of what it was and the conflict  *)
(* log an extension of what it was.                                        *)
(***************************************************************************)
SessionOnlyGrows ==
    [][call'.op \notin {"reset", "integrity_reset"} =>
           /\ seen_hashes \subseteq seen_hashes'
           /\ IsPrefix(conflicts, conflicts')]_vars

SessionOnlyGrowsWitness ==
    /\ call.op \in {"process", "filter_duplicates", "integrity_process"}
    /\ call.seen0 # {}
    /\ call.seen0 # seen_hashes
    /\ call.log0 # <<>>
    /\ Len(conflicts) > Len(call.log0)

(***************************************************************************)
(* C10  TransactionValidator.validate never raises: handed an object that  *)
(* is not a mapping it returns a result with is_valid = false and a        *)
(* MALFORMED_STRUCTURE error among its errors.  The code calls             *)
(* transaction.get("id") before any check, which raises AttributeError on  *)
(* such an object, so this statement does not hold of it.                  *)
(***************************************************************************)
ValidateNeverRaises ==
    call.op \in {"validate", "validate_transaction"} =>
        /\ call.raised = ""
        /\ ~IsDict(call.txs[1]) =>
               /\ call.validation.is_valid = FALSE
               /\ \E i \in 1..Len(call.validation.errors) :
                      call.validation.errors[i].error_type = MALFORMED_STRUCTURE

(***************************************************************************)
(* C11  After a non-strict IntegrityValidator.process the all_hashes set   *)
(* of the result holds the fingerprint of every record of the batch,       *)
(* whichever list the record went to.  The code leaves the corrupted       *)
(* branch with `continue` before it reaches result.all_hashes.add, so the  *)
(* fingerprint of a corrupted record is missing and this statement does    *)
(* not hold of it.                                                         *)
(***************************************************************************)
AllHashesCoverBatch ==
    (Returned("integrity_process") /\ ~strict) =>
        \A i \in 1..Len(call.txs) : Fingerprint(call.txs[i]) \in call.result.all_hashes

(***************************************************************************)
(* C12  Duplicates are never fatal.  A strict IntegrityValidator.process   *)
(* on a batch in which every record passes validation raises nothing,      *)
(* however many duplicates the batch has, and returns the full partition:  *)
(* nothing in corrupted, the records whose fingerprint was seen before the *)
(* call or earlier in the batch in duplicates, all others in valid, both   *)
(* in batch order.                                                         *)
(***************************************************************************)
DuplicatesNeverFatal ==
    (call.op = "integrity_process" /\ strict
       /\ ValidPositions(call.txs) = 1..Len(call.txs)) =>
        LET all == 1..Len(call.txs)
            fresh == {i \in FirstOccurrences(call.txs, all) :
                         Fingerprint(call.txs[i]) \notin call.seen0}
        IN  /\ call.raised = ""
            /\ call.result.corrupted = <<>>
            /\ call.result.valid = Pick(call.txs, fresh)
            /\ call.result.duplicates = Pick(call.txs, all \ fresh)
            /\ Len(call.result.valid) + Len(call.result.duplicates) = Len(call.txs)

DuplicatesNeverFatalWitness ==
    /\ call.op = "integrity_process" /\ strict
    /\ call.raised = ""
    /\ Len(call.txs) = 3
    /\ Len(call.result.valid) = 1
    /\ Len(call.result.duplicates) = 2
    /\ call.result.duplicates[1] # call.result.duplicates[2]

(***************************************************************************)
(* C13  Idempotent verify.  For every batch, verify_integrity returns true *)
(* exactly when IntegrityValidator.process of that batch on a freshly      *)
(* reset pipeline yields no corrupted record and no duplicate.  The code   *)
(* runs process on the session as it stands, so a batch whose fingerprints *)
(* the session has seen is reported false, and this statement does not     *)
(* hold of it.                                                             *)
(***************************************************************************)
VerifyMatchesFreshProcess ==
    call.op = "verify_integrity" =>
        LET fresh == IntegrityProcess({}, <<>>, call.txs, <<>>, required_fields,
                                      field_types, hash_fields, strict, track_conflicts)
        IN  (call.raised = "" /\ call.ret)
              <=> /\ fresh.raised = ""
                  /\ Len(fresh.result.corrupted) = 0
                  /\ Len(fresh.result.duplicates) = 0

(***************************************************************************)
(* C14  compute_transaction_hash depends only on the projection of the     *)
(* record onto the hash field set: two records that hold the same fields   *)
(* of the set with the same values get the same fingerprint, whatever the  *)
(* order of their keys and whatever other fields they hold, and the same   *)
(* record hashed twice gets the same fingerprint twice.                    *)
(***************************************************************************)
HashDependsOnProjection ==
    call.op = "hash_batch" =>
        \A i, j \in 1..Len(call.txs) :
            SameProjection(call.txs[i], call.txs[j], HashFields)
                => call.out[i] = call.out[j]

HashDependsOnProjectionWitness ==
    /\ call.op = "hash_batch"
    /\ hash_fields = <<>>
    /\ Len(call.txs) = 3
    /\ call.txs[1] = TXPR
    /\ call.txs[2] = TX1PA
    /\ Keys(call.txs[1]) # Keys(call.txs[2])
    /\ call.out[1] = call.out[2]
    /\ call.out[3] # call.out[1]

(***************************************************************************)
(* C15  TransactionValidator.validate returns its errors in the order of   *)
(* its checks: the MISSING_FIELD errors first, in the order the required   *)
(* fields are enumerated, then the INVALID_TYPE errors, in the order of    *)
(* field_types, then MALFORMED_STRUCTURE, then HASH_MISMATCH; no error of  *)
(* a later kind precedes an error of an earlier kind.                      *)
(***************************************************************************)
ErrorsInCheckOrder ==
    (Returned("validate") \/ Returned("validate_transaction")) =>
        LET errors == call.validation.errors
            typed == [k \in 1..Len(field_types) |-> field_types[k][1]]
        IN  \A i, j \in 1..Len(errors) :
                i < j =>
                    /\ KindRank(errors[i].error_type) <= KindRank(errors[j].error_type)
                    /\ (errors[i].error_type = MISSING_FIELD
                          /\ errors[j].error_type = MISSING_FIELD) =>
                           PosIn(required_fields, errors[i].field[1])
                             < PosIn(required_fields, errors[j].field[1])
                    /\ (errors[i].error_type = INVALID_TYPE
                          /\ errors[j].error_type = INVALID_TYPE) =>
                           PosIn(typed, errors[i].field[1]) < PosIn(typed, errors[j].field[1])

ErrorsInCheckOrderWitness ==
    /\ Returned("validate")
    /\ field_types = <<<<"id", "str">>, <<"amount", "int">>>>
    /\ Len(call.validation.errors) = 4
    /\ call.validation.errors[1].error_type = MISSING_FIELD
    /\ call.validation.errors[2].error_type = INVALID_TYPE
    /\ call.validation.errors[2].field = <<"id">>
    /\ call.validation.errors[3].error_type = INVALID_TYPE
    /\ call.validation.errors[3].field = <<"amount">>
    /\ call.validation.errors[4].error_type = HASH_MISMATCH

(***************************************************************************)
(* C16  For a mapping record TransactionValidator.validate returns         *)
(* is_valid = true exactly when errors is empty, and errors holds exactly: *)
(* one MISSING_FIELD error per required field that is absent or null, one  *)
(* INVALID_TYPE error per typed field that is present, non-null and of     *)
(* another type than expected (none for an absent or null typed field),    *)
(* one HASH_MISMATCH error if and only if a stored hash is supplied and    *)
(* differs from the computed fingerprint, and nothing else.                *)
(***************************************************************************)
ErrorsExact ==
    ((call.op = "validate" \/ call.op = "validate_transaction")
       /\ IsDict(call.txs[1])) =>
        LET tx == call.txs[1]
            v == call.validation
            names == {SortedKeys[k] : k \in 1..Len(SortedKeys)}
            required == {required_fields[k] : k \in 1..Len(required_fields)}
            missing(f) == ~Contains(tx, f) \/ Item(tx, f) = NoneV
            mistyped(f) == \E k \in 1..Len(field_types) :
                               /\ field_types[k][1] = f
                               /\ ~missing(f)
                               /\ Item(tx, f)[1] # field_types[k][2]
            mismatch == call.stored_hash # <<>> /\ call.stored_hash[1] # Fingerprint(tx)
        IN  /\ call.raised = ""
            /\ v.is_valid <=> (v.errors = <<>>)
            /\ \A f \in names :
                   /\ ErrorCount(v.errors, MISSING_FIELD, <<f>>)
                        = IF f \in required /\ missing(f) THEN 1 ELSE 0
                   /\ ErrorCount(v.errors, INVALID_TYPE, <<f>>)
                        = IF mistyped(f) THEN 1 ELSE 0
            /\ ErrorCount(v.errors, HASH_MISMATCH, <<>>) = IF mismatch THEN 1 ELSE 0
            /\ \A i \in 1..Len(v.errors) :
                   \/ /\ v.errors[i].error_type \in {MISSING_FIELD, INVALID_TYPE}
                      /\ v.errors[i].field # <<>>
                      /\ v.errors[i].field[1] \in names
                   \/ /\ v.errors[i].error_type = HASH_MISMATCH
                      /\ v.errors[i].field = <<>>

ErrorsExactWitness ==
    /\ call.op = "validate"
    /\ call.txs = <<TXN>>
    /\ \E k \in 1..Len(field_types) : field_types[k] = <<"id", "str">>
    /\ call.stored_hash # <<>>
    /\ Len(call.validation.errors) = 2
    /\ call.validation.errors[1].error_type = MISSING_FIELD
    /\ call.validation.errors[1].field = <<"id">>
    /\ call.validation.errors[2].error_type = HASH_MISMATCH
    /\ ~call.validation.is_valid

(***************************************************************************)
(* C17  In a non-strict IntegrityValidator.process a record that fails     *)
(* validation is not checked for duplication and does not change the       *)
(* session: it goes to corrupted whether or not its fingerprint was seen,  *)
(* its fingerprint is not inserted in the seen set, the conflict log of    *)
(* the session gets nothing for it, the conflicts of the result get        *)
(* exactly one CORRUPTED ConflictRecord for it, and a later record that    *)
(* passes validation and has the same fingerprint still lands in valid.    *)
(***************************************************************************)
CorruptedLeavesSessionAlone ==
    (Returned("integrity_process") /\ ~strict) =>
        LET all == 1..Len(call.txs)
            ok == ValidPositions(call.txs)
            bad == Positions(Len(call.txs), all \ ok)
            fresh == {i \in FirstOccurrences(call.txs, ok) :
                         Fingerprint(call.txs[i]) \notin call.seen0}
            corrupted == OfKind(call.result.conflicts, CORRUPTED)
        IN  /\ call.result.corrupted = Pick(call.txs, all \ ok)
            /\ seen_hashes = call.seen0 \cup {Fingerprint(call.txs[i]) : i \in ok}
            /\ IsPrefix(call.log0, conflicts)
            /\ Len(conflicts) = Len(call.log0) + Cardinality(ok \ fresh)
            /\ \A n \in (Len(call.log0) + 1)..Len(conflicts) :
                   conflicts[n].conflict_type = DUPLICATE
            /\ Len(corrupted) = Len(bad)
            /\ \A n \in 1..Len(bad) :
                   /\ corrupted[n].hash = Fingerprint(call.txs[bad[n]])
                   /\ corrupted[n].transaction_id = DictGet(call.txs[bad[n]], "id")
            /\ call.result.valid = Pick(call.txs, fresh)

CorruptedLeavesSessionAloneWitness ==
    /\ Returned("integrity_process") /\ ~strict
    /\ Len(call.txs) = 3
    /\ ~PassesValidation(call.txs[1])
    /\ PassesValidation(call.txs[2])
    /\ Fingerprint(call.txs[1]) = Fingerprint(call.txs[2])
    /\ call.txs[3] = call.txs[1]
    /\ call.result.valid = <<call.txs[2]>>
    /\ call.result.corrupted = <<call.txs[1], call.txs[3]>>
    /\ Len(call.result.conflicts) = 2

(***************************************************************************)
(* C18  After a non-strict IntegrityValidator.process the conflicts list   *)
(* of the result holds all conflict records of the batch: one CORRUPTED    *)
(* ConflictRecord per record in corrupted and one DUPLICATE ConflictRecord *)
(* per record in duplicates, in input order.  The code appends only the    *)
(* CORRUPTED records to result.conflicts; the DUPLICATE records go to the  *)
(* conflict log of the Deduplicator, so this statement does not hold of    *)
(* it.                                                                     *)
(***************************************************************************)
ResultConflictsComplete ==
    (Returned("integrity_process") /\ ~strict) =>
        LET all == 1..Len(call.txs)
            ok == ValidPositions(call.txs)
            fresh == {i \in FirstOccurrences(call.txs, ok) :
                         Fingerprint(call.txs[i]) \notin call.seen0}
            flagged == Positions(Len(call.txs), all \ fresh)
        IN  /\ Len(call.result.conflicts)
                 = Len(call.result.corrupted) + Len(call.result.duplicates)
            /\ Len(call.result.conflicts) = Len(flagged)
            /\ \A n \in 1..Len(flagged) :
                   /\ call.result.conflicts[n].hash = Fingerprint(call.txs[flagged[n]])
                   /\ call.result.conflicts[n].conflict_type
                        = IF flagged[n] \in ok THEN DUPLICATE ELSE CORRUPTED

(***************************************************************************)
(* C19  The DeduplicationResult that Deduplicator.process returns, with    *)
(* conflict tracking on, carries in its conflicts field the conflict       *)
(* records of the batch: one DUPLICATE ConflictRecord per record in its    *)
(* duplicates field.  The code never writes result.conflicts: the records  *)
(* go to the conflict log of the Deduplicator only, so this statement does *)
(* not hold of it.                                                         *)
(***************************************************************************)
DedupResultCarriesConflicts ==
    (call.op = "process" /\ track_conflicts) =>
        /\ Len(call.result.conflicts) = Len(call.result.duplicates)
        /\ \A n \in 1..Len(call.result.conflicts) :
               /\ call.result.conflicts[n].conflict_type = DUPLICATE
               /\ call.result.conflicts[n].hash = Fingerprint(call.result.duplicates[n])

(***************************************************************************)
(* C20  Deduplicator.process(records) is equivalent to calling add on each *)
(* record in input order from the same starting session: the seen set and  *)
(* the conflict log end up equal, unique is the subsequence of the records *)
(* for which add returns true and duplicates the subsequence of those for  *)
(* which it returns false.                                                 *)
(***************************************************************************)
ProcessEquivalentToAdds ==
    call.op = "process" =>
        LET adds == AddEach(call.seen0, call.log0, call.txs, call.source)
            accepted == {i \in 1..Len(call.txs) : adds.rets[i]}
        IN  /\ seen_hashes = adds.seen
            /\ conflicts = adds.log
            /\ call.result.unique = Pick(call.txs, accepted)
            /\ call.result.duplicates = Pick(call.txs, (1..Len(call.txs)) \ accepted)

ProcessEquivalentToAddsWitness ==
    /\ call.op = "process"
    /\ track_conflicts
    /\ call.seen0 # {}
    /\ call.log0 # <<>>
    /\ Len(call.txs) = 3
    /\ Len(call.result.unique) = 2
    /\ Len(call.result.duplicates) = 1
    /\ Len(conflicts) = Len(call.log0) + 1

(***************************************************************************)
(* C21  After Deduplicator.process(records) the hashes set of the result   *)
(* is the set of the fingerprints of all records of the batch, duplicates  *)
(* included, it is a subset of the seen set of the session, and            *)
(* len(unique) + len(duplicates) = len(records).                           *)
(***************************************************************************)
HashesCoverBatch ==
    call.op = "process" =>
        /\ call.result.hashes = {Fingerprint(call.txs[i]) : i \in 1..Len(call.txs)}
        /\ call.result.hashes \subseteq seen_hashes
        /\ Len(call.result.unique) + Len(call.result.duplicates) = Len(call.txs)

HashesCoverBatchWitness ==
    /\ call.op = "process"
    /\ Len(call.txs) = 3
    /\ Len(call.result.unique) = 1
    /\ Len(call.result.duplicates) = 2
    /\ Cardinality(call.result.hashes) = 3
    /\ Cardinality(call.seen0) = 2

(***************************************************************************)
(* C23  With track_conflicts = false the conflict log of the Deduplicator  *)
(* is empty in every reachable state, over any sequence of add, process    *)
(* and filter_duplicates calls, while what the calls return and how they   *)
(* classify the records (and what they leave in the seen set) is what the  *)
(* same calls give with tracking on.                                       *)
(***************************************************************************)
UntrackedLogStaysEmpty ==
    ~track_conflicts =>
        /\ conflicts = <<>>
        /\ call.op = "add" =>
               LET on == DedupAdd(call.seen0, call.log0, call.txs[1], call.source,
                                  hash_fields, TRUE)
               IN  call.ret = on.ret /\ seen_hashes = on.seen
        /\ call.op \in {"process", "filter_duplicates"} =>
               LET on == DedupProcess(call.seen0, call.log0, call.txs, call.source,
                                      hash_fields, TRUE)
               IN  /\ seen_hashes = on.seen
                   /\ call.op = "process" =>
                          /\ call.result.unique = on.result.unique
                          /\ call.result.duplicates = on.result.duplicates
                          /\ call.result.hashes = on.result.hashes
                   /\ call.op = "filter_duplicates" =>
                          call.out = IF call.return_unique THEN on.result.unique
                                     ELSE on.result.duplicates

UntrackedLogStaysEmptyWitness ==
    /\ ~track_conflicts
    /\ call.op = "filter_duplicates"
    /\ ~call.return_unique
    /\ Len(call.txs) = 3
    /\ Len(call.out) = 3
    /\ call.seen0 # {}
    /\ conflicts = <<>>

(***************************************************************************)
(* C22  validate_batch returns exactly one ValidationResult per record of  *)
(* the batch, in the order of the batch, and validates the i-th record     *)
(* against stored_hashes[i] when that index exists and against None        *)
(* otherwise: the i-th result is about the i-th record, and it holds a     *)
(* HASH_MISMATCH error exactly when stored_hashes has an i-th entry that   *)
(* differs from the fingerprint of the record, so a list shorter than the  *)
(* batch gives no HASH_MISMATCH for the records past its end.              *)
(***************************************************************************)
BatchResultsInOrder ==
    Returned("validate_batch") =>
        /\ Len(call.out) = Len(call.txs)
        /\ \A i \in 1..Len(call.txs) :
               LET given == call.stored_hash # <<>> /\ i <= Len(call.stored_hash[1])
               IN  /\ call.out[i].transaction_id = DictGet(call.txs[i], "id")
                   /\ call.out[i].hash = Fingerprint(call.txs[i])
                   /\ ErrorCount(call.out[i].errors, HASH_MISMATCH, <<>>)
                        = IF given /\ call.stored_hash[1][i] # Fingerprint(call.txs[i])
                          THEN 1 ELSE 0
                   /\ ErrorCount(call.out[i].errors, MISSING_FIELD, <<"id">>)
                        = IF Contains(call.txs[i], "id") THEN 0 ELSE 1

BatchResultsInOrderWitness ==
    /\ Returned("validate_batch")
    /\ Len(call.txs) = 3
    /\ call.stored_hash # <<>>
    /\ Len(call.stored_hash[1]) = 2
    /\ ErrorCount(call.out[1].errors, HASH_MISMATCH, <<>>) = 0
    /\ ErrorCount(call.out[2].errors, HASH_MISMATCH, <<>>) = 1
    /\ call.out[3].is_valid
    /\ call.stored_hash[1][2] # Fingerprint(call.txs[3])

(***************************************************************************)
(* C24  A hash field that the record lacks is left out of the projection   *)
(* and is not taken for null.  On a fresh session Deduplicator.process     *)
(* classifies by projection: a record is a duplicate exactly when an       *)
(* earlier record of the batch holds the same hash fields with the same    *)
(* values.  So a record that lacks a hash field and one that holds it with *)
(* a null value, equal otherwise, are not duplicates of each other, while  *)
(* records that lack every hash field are duplicates of each other.        *)
(***************************************************************************)
AbsentIsNotNull ==
    (call.op = "process" /\ call.seen0 = {}) =>
        LET all == 1..Len(call.txs)
            first == {i \in all : \A j \in 1..(i - 1) :
                         ~SameProjection(call.txs[j], call.txs[i], HashFields)}
        IN  /\ call.result.unique = Pick(call.txs, first)
            /\ call.result.duplicates = Pick(call.txs, all \ first)
            /\ \A i, j \in all :
                   SameProjection(call.txs[i], call.txs[j], HashFields)
                       <=> Fingerprint(call.txs[i]) = Fingerprint(call.txs[j])

AbsentIsNotNullWitness ==
    /\ call.op = "process" /\ call.seen0 = {}
    /\ call.txs = <<TXE, TXN, TXAM>>
    /\ call.result.unique = <<TXE, TXN>>
    /\ call.result.duplicates = <<TXAM>>

VerifyCommitsBatch ==
    (call.op = "verify_integrity" /\ call.txs # <<>>
       /\ ValidPositions(call.txs) = 1..Len(call.txs)
       /\ FirstOccurrences(call.txs, 1..Len(call.txs)) = 1..Len(call.txs)) =>
        LET fps == {Fingerprint(call.txs[i]) : i \in 1..Len(call.txs)}
            again == IntegrityProcess(seen_hashes, conflicts, call.txs, <<>>,
                                      required_fields, field_types, hash_fields,
                                      strict, track_conflicts)
        IN  /\ call.raised = ""
            /\ fps \cap call.seen0 = {} =>
                   /\ call.ret = TRUE
                   /\ fps \subseteq seen_hashes
                   /\ again.raised = ""
                   /\ Len(again.result.corrupted) = 0
                   /\ Len(again.result.duplicates) = Len(call.txs)
            /\ fps \subseteq call.seen0 =>
                   /\ call.ret = FALSE
                   /\ seen_hashes = call.seen0
                   /\ Len(conflicts) = Len(call.log0) + Len(call.txs)

VerifyCommitsBatchWitness ==
    /\ call.op = "verify_integrity"
    /\ Len(call.txs) = 2
    /\ ValidPositions(call.txs) = 1..2
    /\ Fingerprint(call.txs[1]) # Fingerprint(call.txs[2])
    /\ call.seen0 = {Fingerprint(call.txs[1]), Fingerprint(call.txs[2])}
    /\ call.log0 = <<>>
    /\ call.ret = FALSE
    /\ Len(conflicts) = 2

(***************************************************************************)
(* C30  A TransactionValidator or IntegrityValidator constructed with an   *)
(* explicitly empty required-field set behaves as if the set were {id}:    *)
(* validate reports a record without an id, or with a null id, with one    *)
(* MISSING_FIELD error about id and as not valid, and a record with an id  *)
(* with none; IntegrityValidator.process puts exactly the records without  *)
(* a non-null id in corrupted, or raises IntegrityError on the first of    *)
(* them in strict mode.                                                    *)
(***************************************************************************)
EmptyRequiredMeansId ==
    LET noId(tx) == ~Contains(tx, "id") \/ Item(tx, "id") = NoneV
    IN  /\ (call.op = "validate" \/ call.op = "validate_transaction") =>
               /\ ErrorCount(call.validation.errors, MISSING_FIELD, <<"id">>)
                    = IF noId(call.txs[1]) THEN 1 ELSE 0
               /\ noId(call.txs[1]) => ~call.validation.is_valid
        /\ (call.op = "integrity_process" /\ ~strict) =>
               /\ call.result.corrupted
                    = Pick(call.txs, {i \in 1..Len(call.txs) : noId(call.txs[i])})
               /\ Len(call.result.validation_errors) = Len(call.result.corrupted)
               /\ \A n \in 1..Len(call.result.validation_errors) :
                      /\ call.result.validation_errors[n].error_type = MISSING_FIELD
                      /\ call.result.validation_errors[n].field = <<"id">>
        /\ (call.op = "integrity_process" /\ strict) =>
               (call.raised = "IntegrityError")
                   <=> \E i \in 1..Len(call.txs) : noId(call.txs[i])

EmptyRequiredMeansIdWitness ==
    /\ call.op = "integrity_process" /\ ~strict
    /\ call.txs = <<TXE, TXN, TX1>>
    /\ call.result.corrupted = <<TXE, TXN>>
    /\ call.result.valid = <<TX1>>
    /\ Len(call.result.validation_errors) = 2

(***************************************************************************)
(* C26  IngestionService.ingest is idempotent over the persisted state.    *)
(* Over any sequence of ingest calls on one state store in which fetch_fn  *)
(* and process_fn do not raise, process_fn is invoked at most once per     *)
(* ledger id; a ledger already recorded as processed is reported in        *)
(* skipped and is neither fetched nor processed again; and every attempted *)
(* ledger is in exactly one of processed and skipped.                      *)
(***************************************************************************)
IngestIdempotent ==
    /\ callbacks.again = {}
    /\ callbacks.once = state_store.processed_ledgers
    /\ (ingest_call.op = "ingest" /\ ingest_call.raised = "") =>
           LET c == ingest_call
               all == 1..Len(c.attempted)
               known == {i \in all : c.attempted[i] \in c.store0.processed_ledgers}
           IN  /\ c.range # <<>> =>
                      c.attempted = [i \in 1..(c.range[2] - c.range[1] + 1) |->
                                        c.range[1] + i - 1]
               /\ c.skipped = Pick(c.attempted, known)
               /\ c.processed = Pick(c.attempted, all \ known)
               /\ Range(c.processed) \cap Range(c.skipped) = {}
               /\ Len(c.processed) + Len(c.skipped) = Len(c.attempted)
               /\ c.fetched = c.processed
               /\ c.handled = c.processed

IngestIdempotentWitness ==
    /\ ingest_call.op = "ingest" /\ ingest_call.raised = ""
    /\ ingest_call.attempted = <<0, 1, 2>>
    /\ ingest_call.skipped = <<1>>
    /\ ingest_call.processed = <<0, 2>>
    /\ ingest_call.handled = <<0, 2>>

(***************************************************************************)
(* C27  IngestionService.ingest retries safely.  If fetch_fn or process_fn *)
(* raises at ledger k while the call ingests the range [s, e], every       *)
(* ledger s..k-1 is persisted as processed (those processed earlier in the *)
(* call were written one by one) and ledger k is not; an ingest over the   *)
(* same range issued afterwards skips s..k-1 and resumes processing at k.  *)
(***************************************************************************)
IngestRetriesSafely ==
    (ingest_call.op = "ingest"
       /\ ingest_call.raised \in {"FetchError", "ProcessError"}) =>
        LET c == ingest_call
            s == c.range[1]
            e == c.range[2]
            k == c.at[1]
            retry == IngestRun(state_store, <<s>>, <<e>>, <<>>)
        IN  /\ s <= k /\ k <= e
            /\ (s..(k - 1)) \subseteq state_store.processed_ledgers
            /\ k \notin state_store.processed_ledgers
            /\ state_store.processed_ledgers
                 = c.store0.processed_ledgers \cup (s..(k - 1))
            /\ retry.raised = ""
            /\ IsPrefix([i \in 1..(k - s) |-> s + i - 1], retry.skipped)
            /\ retry.processed # <<>>
            /\ retry.processed[1] = k
            /\ retry.handled[1] = k

IngestRetriesSafelyWitness ==
    /\ ingest_call.op = "ingest"
    /\ ingest_call.raised = "ProcessError"
    /\ ingest_call.range = <<0, 2>>
    /\ ingest_call.at = <<2>>
    /\ ingest_call.store0.processed_ledgers = {0}
    /\ state_store.processed_ledgers = {0, 1}
    /\ 2 \in callbacks.once

(***************************************************************************)
(* C28  Sharing one Deduplicator without serialization is unsafe.  add     *)
(* tests membership and inserts in two steps: when the add calls of two    *)
(* callers for records with the same fingerprint interleave between those  *)
(* steps, both return true and no DUPLICATE conflict is logged; when each  *)
(* add runs from test to insert without the other in between, exactly one  *)
(* of them returns true.                                                   *)
(***************************************************************************)
SharingUnsafe ==
    LET a == threads["first"]
        b == threads["second"]
    IN  (a.pc = "done" /\ b.pc = "done" /\ Fingerprint(a.tx) = Fingerprint(b.tx)) =>
            /\ a.interleaved = b.interleaved
            /\ seen_hashes = {Fingerprint(a.tx)}
            /\ a.interleaved =>
                   /\ a.ret /\ b.ret
                   /\ OfKind(conflicts, DUPLICATE) = <<>>
            /\ ~a.interleaved =>
                   /\ a.ret # b.ret
                   /\ track_conflicts => Len(OfKind(conflicts, DUPLICATE)) = 1

SharingUnsafeWitness ==
    /\ threads # <<>>
    /\ threads["first"].pc = "done" /\ threads["second"].pc = "done"
    /\ threads["first"].tx = TX1 /\ threads["second"].tx = TX1
    /\ threads["first"].interleaved
    /\ threads["first"].ret /\ threads["second"].ret
    /\ track_conflicts
    /\ conflicts = <<>>

====
